---- MODULE Spec2Model ----
(***************************************************************************)
(* Househelp backend: booking creation with automatic provider matching,   *)
(* manual assignment, the booking status transitions (start, complete,     *)
(* stop), feedback with loyalty points, and the unique partial index of    *)
(* the Booking collection.                                                 *)
(*                                                                         *)
(* Each request handler is cut at the awaits that separate its reads from  *)
(* its writes, so that requests in flight interleave the way the event     *)
(* loop lets them.  A text value that the code trims, lower-cases or       *)
(* matches is a tuple of one-character strings; a slot label is the tuple  *)
(* <<hh, mm, ampm, hh, mm, ampm>> of the fields the code renders and       *)
(* parses; a location is a position in metres on a line.                   *)
(***************************************************************************)
EXTENDS Integers, Sequences, FiniteSets, TLC

VARIABLES
    bookings,       \* the Booking collection, in insertion order (index = _id)
    earnings,       \* User.earnings of every provider
    points,         \* User.points of every provider
    gifts,          \* number of entries of User.gifts of every provider
    reqs,           \* the requests in flight: slot -> locals of the handler
    statusEnum,     \* the status enum of the Booking schema the server loaded
    uniqueIndex,    \* whether the collection carries the unique partial index
    windows,        \* service.pricing of the Service document
    avail,          \* the availability query in flight and its response
    gen,            \* the slot generator at work: its loop variables
    inflightLimit,  \* how many requests the run lets overlap
    budget          \* requests the run may still admit

vars == <<bookings, earnings, points, gifts, reqs, statusEnum, uniqueIndex,
          windows, avail, gen, inflightLimit, budget>>

Null == "null"

(***************************************************************************)
(* Bounds of the model.                                                    *)
(***************************************************************************)
MaxBookings == 2
MaxInflight == 2
MaxOps == 4
MaxOpsConcurrent == 3
MaxOpsPoints == 3
MaxOpsAvail == 3

(***************************************************************************)
(* Text: String.prototype.trim and toLowerCase, and the anchored           *)
(* case-insensitive regular expression of the provider search.             *)
(***************************************************************************)
LowerChar(c) ==
    CASE c = "C" -> "c"
      [] c = "L" -> "l"
      [] OTHER -> c

ToLowerCase(s) == [i \in DOMAIN s |-> LowerChar(s[i])]

RECURSIVE TrimStart(_)
TrimStart(s) ==
    IF s # <<>> /\ Head(s) = " " THEN TrimStart(Tail(s)) ELSE s

RECURSIVE TrimEnd(_)
TrimEnd(s) ==
    IF s # <<>> /\ s[Len(s)] = " " THEN TrimEnd(SubSeq(s, 1, Len(s) - 1)) ELSE s

Trim(s) == TrimEnd(TrimStart(s))

\* the pattern without its end anchor: a category that starts with the name
CategoryRegexMatchesUnanchored(name, category) ==
    LET n == ToLowerCase(Trim(name))
    IN  /\ Len(category) >= Len(n)
        /\ SubSeq(ToLowerCase(category), 1, Len(n)) = n

\* new RegExp(`^${name.trim()}$`, 'i') tested against a stored category; the
\* names of the model hold no regular-expression metacharacter.
CategoryRegexMatches(name, category) ==
    category # <<>> /\ ToLowerCase(Trim(name)) = ToLowerCase(category)

(***************************************************************************)
(* The User collection.  role, isVerified, serviceCategory and location    *)
(* are not written by any booking handler; earnings, points and gifts are  *)
(* the variables above.                                                    *)
(***************************************************************************)
Customers == {"c1", "c2"}
Providers == {"p1", "p2", "p3", "p4", "p5", "p6", "p7", "p8"}
Admins == {"admin"}
Users == Customers \cup Providers \cup Admins

Role(u) ==
    IF u \in Customers THEN "customer"
    ELSE IF u \in Providers THEN "provider" ELSE "admin"

IsVerified(u) == u \in {"p1", "p2", "p4", "p5", "p6", "p7", "p8"}

ServiceCategory(u) ==
    CASE u = "p1" -> <<"c", "l">>
      [] u = "p2" -> <<"C", "L">>
      [] u = "p3" -> <<"C", "l">>
      [] u = "p4" -> <<"C", "l", "x">>
      [] u \in {"p5", "p6", "p7", "p8"} -> <<"c", "l">>
      [] OTHER -> <<>>

Location(u) ==
    CASE u = "p1" -> 2000
      [] u = "p2" -> 6000
      [] u = "p3" -> 1500
      [] u = "p4" -> 1200
      [] u = "p5" -> -60000
      [] u = "p6" -> -61000
      [] u = "p7" -> -62000
      [] u = "p8" -> -63000
      [] OTHER -> 0

\* the points a request may come from; NoLocation is a request whose
\* location, lat or lng is missing or falsy
Origins == {1000, 46000}
NoLocation == 0

GeoDistance(a, b) == IF a >= b THEN a - b ELSE b - a

MaxDistance == 40000

(***************************************************************************)
(* Slot labels and the Service collection.                                 *)
(***************************************************************************)
SlotA == <<9, 0, "am", 11, 0, "am">>
SlotB == <<9, 30, "am", 11, 30, "am">>
SlotC == <<1, 0, "pm", 3, 0, "pm">>
Slots == {SlotA, SlotB, SlotC}

Dates == {"d1"}

Services == {"s1"}
ServiceIds == Services \cup {"s9"}

ServiceName(s) == <<"C", "l", " ">>

\* service.pricing of a document of the Service schema with labels: entries
\* {timeSlot, price}, which hold no startTime and no endTime
LabelledPricing ==
    << [timeSlot |-> SlotA, startTime |-> <<>>, endTime |-> <<>>, price |-> 100],
       [timeSlot |-> SlotB, startTime |-> <<>>, endTime |-> <<>>, price |-> 200] >>

\* service.pricing of the one Service document, read by the creation handler
\* (timeSlot, price) and by the availability handler (startTime, endTime,
\* price); a field the document does not hold is <<>>
ServicePricing(s) == windows

\* parseH and the minutes of a stored label's two ends
ParseH(h, ampm) ==
    LET low == IF ampm \in {"pm", "PM"} THEN "pm" ELSE "am"
        v1 == IF low = "pm" /\ h < 12 THEN h + 12 ELSE h
    IN  IF low = "am" /\ v1 = 12 THEN 0 ELSE v1

BusyRange(label) ==
    [start |-> ParseH(label[1], label[3]) * 60 + label[2],
     end   |-> ParseH(label[4], label[6]) * 60 + label[5]]

Overlaps(r1, r2) == r1.start < r2.end /\ r1.end > r2.start

Ratings == {2, 3, 4}

(***************************************************************************)
(* The Booking collection: schema validation and the unique partial index. *)
(***************************************************************************)
\* The repository holds two Booking schemas.  One declares the enum with
\* 'in progress' and the unique partial index; the other declares the enum
\* with 'in_progress' and no index.  An index once built stays in the
\* database, whichever schema the server loads afterwards.
EnumUnderscore == {"pending", "confirmed", "in_progress", "completed", "cancelled"}
EnumSpace == {"pending", "confirmed", "in progress", "completed", "cancelled"}

ValidationFails(doc) == doc.status \notin statusEnum

IndexedStatuses == {"pending", "confirmed", "in progress"}

InPartialIndex(b) == b.provider # Null /\ b.status \in IndexedStatuses

IndexKey(b) == <<b.provider, b.date, b.timeSlot>>

\* E11000: document id of coll collides with another document of the index
DuplicateKey(coll, id) ==
    /\ uniqueIndex
    /\ InPartialIndex(coll[id])
    /\ \E j \in DOMAIN coll \ {id} :
          InPartialIndex(coll[j]) /\ IndexKey(coll[j]) = IndexKey(coll[id])

\* document.save(): $set of the paths whose value differs from the loaded one
ModifiedPaths(loaded, doc) == {f \in DOMAIN doc : doc[f] # loaded[f]}

Stored(db, doc, paths) == [f \in DOMAIN db |-> IF f \in paths THEN doc[f] ELSE db[f]]

NoDoc ==
    [customer |-> Null, provider |-> Null, service |-> Null, date |-> Null,
     timeSlot |-> <<>>, status |-> Null, startedAt |-> FALSE,
     pricing |-> [base |-> 0, tax |-> 0, total |-> 0], feedback |-> 0]

(***************************************************************************)
(* Requests in flight and responses.                                       *)
(***************************************************************************)
\* req.body of a creation request
Body(serviceId, date, timeSlot, location) ==
    [serviceId |-> serviceId, date |-> date, timeSlot |-> timeSlot,
     location |-> location]

NoBody == Body(Null, Null, <<>>, 0)

\* the locals of a handler: the request, the documents it loaded (doc, read)
\* and, once it has ended, its response
Request(op, pc, actor, bid, provider, rating, body, doc, read) ==
    [op |-> op, pc |-> pc, actor |-> actor, bid |-> bid, provider |-> provider,
     rating |-> rating, body |-> body, doc |-> doc, read |-> read,
     code |-> 0, message |-> "", push |-> "none"]

Idle == Request("idle", "idle", Null, 0, Null, 0, NoBody, NoDoc, 0)

\* res.status(code).json({ message, booking }) of a handler that has ended
Response(op, actor, bid, body, code, message, booking) ==
    [op |-> op, pc |-> "done", actor |-> actor, bid |-> bid, provider |-> Null,
     rating |-> 0, body |-> body, doc |-> booking, read |-> 0,
     code |-> code, message |-> message, push |-> "none"]

ReqSlots == 1 .. MaxInflight

InFlight == {j \in ReqSlots : reqs[j].op # "idle"}

\* res.json() ends the handler's last tick: no step of another handler lies
\* between a handler's end and the delivery of its response
Delivered == avail.pc # "done" /\ \A j \in ReqSlots : reqs[j].pc # "done"

\* handler i resumes after the await at pc
Resumes(i, ops, pc) == Delivered /\ reqs[i].op \in ops /\ reqs[i].pc = pc

\* a request arrives in the lowest free slot
Arrives(i) ==
    /\ Delivered
    /\ reqs[i] = Idle
    /\ \A j \in ReqSlots : j < i => reqs[j] # Idle
    /\ Cardinality(InFlight) < inflightLimit

\* the handler answers before any write: nothing is written
Reject(i, op, actor, bid, body, code, message) ==
    /\ reqs' = [reqs EXCEPT ![i] = Response(op, actor, bid, body, code, message, NoDoc)]
    /\ UNCHANGED <<bookings, earnings, points, gifts, statusEnum, uniqueIndex,
                   windows, avail, gen, inflightLimit, budget>>

\* the handler passed its checks and awaits its first write
Admit(i, r) ==
    /\ budget > 0
    /\ reqs' = [reqs EXCEPT ![i] = r]
    /\ budget' = budget - 1
    /\ UNCHANGED <<bookings, earnings, points, gifts, statusEnum, uniqueIndex,
                   windows, avail, gen, inflightLimit>>

\* the handler ends with a response
Finish(i, code, message, booking) ==
    reqs' = [reqs EXCEPT ![i] =
                Response(reqs[i].op, reqs[i].actor, reqs[i].bid, reqs[i].body,
                         code, message, booking)]

\* user.pushToken, set by the push-token route; absent until then
PushToken(u) ==
    CASE u = "c1" -> "token-c1"
      [] u = "p1" -> "token-p1"
      [] u = "p3" -> "token-p3"
      [] OTHER -> Null

\* how axios.post to the push service ends for the notifications of one handler
PostOutcomes == {"sent", "failed"}

\* if (user.pushToken) sendPushNotification(...): nothing is sent without a
\* recipient that holds a token
Push(recipients, post) ==
    IF \A u \in recipients : u = Null \/ PushToken(u) = Null THEN "none" ELSE post

\* a handler that awaits the notification and lets its failure reach the
\* route's catch block
AfterNotifyAwaited(code, push) == IF push = "failed" THEN 500 ELSE code

\* sendPushNotification(...).catch(...) is not awaited and its own try/catch
\* logs the failure: the handler goes on to the response it had prepared
AfterNotify(code, push) == code

\* the handler's writes succeeded: it notifies the recipients and answers
FinishNotified(i, code, message, booking, recipients) ==
    \E post \in PostOutcomes :
        LET push == Push(recipients, post)
        IN  reqs' = [reqs EXCEPT ![i] =
                        [Response(reqs[i].op, reqs[i].actor, reqs[i].bid, reqs[i].body,
                                  AfterNotify(code, push), message, booking)
                         EXCEPT !.push = push]]

\* the response is delivered and the slot is free again
Respond(i) ==
    /\ reqs[i].pc = "done"
    /\ reqs' = [reqs EXCEPT ![i] = Idle]
    /\ UNCHANGED <<bookings, earnings, points, gifts, statusEnum, uniqueIndex,
                   windows, avail, gen, inflightLimit, budget>>

\* authorize(...roles)
Authorize(actor, roles) == Role(actor) \in roles

\* an ownership check that looks at the caller's role only
IsProviderByRole(booking, actor) == Role(actor) = "provider"

\* booking.provider.toString() === req.user._id.toString()
IsProvider(booking, actor) == booking.provider = actor

\* an ownership check that looks at the caller's role only
IsCustomerByRole(booking, actor) == Role(actor) = "customer"

\* booking.customer.toString() === req.user._id.toString()
IsCustomer(booking, actor) == booking.customer = actor

\* a comparison that accepts a category that only starts with the service name
SameCategoryPrefix(providerCategory, serviceName) ==
    LET providerCat == ToLowerCase(Trim(providerCategory))
        serviceCat == ToLowerCase(Trim(serviceName))
    IN  /\ Len(providerCat) >= Len(serviceCat)
        /\ SubSeq(providerCat, 1, Len(serviceCat)) = serviceCat

\* providerCat === serviceCat, both trimmed and lower-cased
SameCategory(providerCategory, serviceName) ==
    ToLowerCase(Trim(providerCategory)) = ToLowerCase(Trim(serviceName))

MsgRole == "Role not authorized for this action"
MsgNoBooking == "Booking not found"
MsgNotAuthorized == "Not authorized"
MsgTypeError == "Cannot read properties of null (reading 'toString')"
MsgValidation == "Booking validation failed: status"
MsgDuplicate == "E11000 duplicate key error"

(***************************************************************************)
(* POST /bookings: creation with automatic matching.                       *)
(***************************************************************************)
MsgPending == "No provider available at this time. Booking is pending."
MsgConfirmed == "Booking confirmed with provider"

\* Booking.find({date, timeSlot, status: {$in: [...]}}).distinct('provider')
BusyProviders(date, timeSlot) ==
    {bookings[k].provider : k \in {j \in DOMAIN bookings :
        /\ bookings[j].date = date
        /\ bookings[j].timeSlot = timeSlot
        /\ bookings[j].status \in {"confirmed", "in_progress"}}}

\* the filter of User.findOne
Eligible(u, name, busy, point) ==
    /\ Role(u) = "provider"
    /\ IsVerified(u)
    /\ CategoryRegexMatches(name, ServiceCategory(u))
    /\ u \notin busy
    /\ GeoDistance(Location(u), point) <= MaxDistance

\* $near returns the nearest first; findOne takes the first.  The set of
\* the users findOne may return, {Null} when the filter matches nobody.
AvailableProvider(name, busy, point) ==
    LET found == {u \in Users : Eligible(u, name, busy, point)}
    IN  IF found = {} THEN {Null}
        ELSE {u \in found : \A v \in found :
                GeoDistance(Location(u), point) <= GeoDistance(Location(v), point)}

\* a lookup that falls back on the first entry of the service
PricingRuleFirstEntry(pricing, timeSlot) == pricing

\* service.pricing.find(p => p.timeSlot === timeSlot): the matching entries,
\* the first of which find returns
PricingRule(pricing, timeSlot) ==
    SelectSeq(pricing, LAMBDA p : p.timeSlot = timeSlot)

Pricing(basePrice) ==
    LET tax == (basePrice * 18) \div 100
    IN  [base |-> basePrice, tax |-> tax, total |-> basePrice + tax]

\* a creation that confirms every booking
CreatedStatusAlwaysConfirmed(p) == "confirmed"

\* status: availableProvider ? 'confirmed' : 'pending'
CreatedStatus(p) == IF p # Null THEN "confirmed" ELSE "pending"

CreatedMessage(p) == IF p # Null THEN MsgConfirmed ELSE MsgPending

CreateRequest(i, actor, serviceId, date, timeSlot, location) ==
    /\ Arrives(i)
    /\ Len(bookings) + Cardinality({j \in InFlight : reqs[j].op = "create"}) < MaxBookings
    /\ LET body == Body(serviceId, date, timeSlot, location)
       IN  IF ~Authorize(actor, {"customer"})
           THEN Reject(i, "create", actor, 0, body, 403, MsgRole)
           ELSE IF location = NoLocation
           THEN Reject(i, "create", actor, 0, body, 400,
                       "Location (lat/lng) is required for booking")
           ELSE IF serviceId \notin Services
           THEN Reject(i, "create", actor, 0, body, 404, "Service not found")
           ELSE LET busy == BusyProviders(date, timeSlot)
                    rule == PricingRule(ServicePricing(serviceId), timeSlot)
                IN  IF rule = <<>>
                    THEN Reject(i, "create", actor, 0, body, 400,
                                "Invalid time slot selected")
                    ELSE \E p \in AvailableProvider(ServiceName(serviceId), busy, location) :
                           Admit(i, Request("create", "create", actor, 0, p, 0, body,
                               [customer |-> actor, provider |-> p, service |-> serviceId,
                                date |-> date, timeSlot |-> timeSlot,
                                status |-> CreatedStatus(p), startedAt |-> FALSE,
                                pricing |-> Pricing(rule[1].price), feedback |-> 0], 0))

\* Booking.create and the response
CreateSave(i) ==
    /\ Resumes(i, {"create"}, "create")
    /\ LET doc == reqs[i].doc
           coll == Append(bookings, doc)
       IN  IF ValidationFails(doc)
           THEN Finish(i, 500, MsgValidation, NoDoc) /\ UNCHANGED bookings
           ELSE IF DuplicateKey(coll, Len(coll))
           THEN Finish(i, 500, MsgDuplicate, NoDoc) /\ UNCHANGED bookings
           ELSE /\ bookings' = coll
                /\ FinishNotified(i, 201, CreatedMessage(reqs[i].provider), doc,
                                  {reqs[i].provider})
    /\ UNCHANGED <<earnings, points, gifts, statusEnum, uniqueIndex, windows, avail, gen,
                   inflightLimit, budget>>

(***************************************************************************)
(* PATCH /bookings/:id/assign: manual assignment by an administrator.      *)
(***************************************************************************)
BookingIds == 1 .. MaxBookings

AssignRequest(i, actor, id, providerId) ==
    /\ Arrives(i)
    /\ IF ~Authorize(actor, {"admin"}) THEN Reject(i, "assign", actor, id, NoBody, 403, MsgRole)
       ELSE IF id \notin DOMAIN bookings THEN Reject(i, "assign", actor, id, NoBody, 404, MsgNoBooking)
       ELSE IF providerId \notin Users \/ Role(providerId) # "provider"
       THEN Reject(i, "assign", actor, id, NoBody, 404, "Provider not found")
       ELSE IF ~SameCategory(ServiceCategory(providerId), ServiceName(bookings[id].service))
       THEN Reject(i, "assign", actor, id, NoBody, 400, "Provider category does not match booking service")
       ELSE Admit(i, Request("assign", "save", actor, id, providerId, 0,
                             NoBody, bookings[id], 0))

\* booking.provider = providerId; booking.status = 'confirmed'; booking.save()
AssignSave(i) ==
    /\ Resumes(i, {"assign"}, "save")
    /\ LET id == reqs[i].bid
           loaded == reqs[i].doc
           doc == [loaded EXCEPT !.provider = reqs[i].provider, !.status = "confirmed"]
           coll == [bookings EXCEPT ![id] = Stored(bookings[id], doc, ModifiedPaths(loaded, doc))]
       IN  IF ValidationFails(doc)
           THEN Finish(i, 500, MsgValidation, NoDoc) /\ UNCHANGED bookings
           ELSE IF DuplicateKey(coll, id)
           THEN Finish(i, 500, MsgDuplicate, NoDoc) /\ UNCHANGED bookings
           ELSE /\ bookings' = coll
                /\ FinishNotified(i, 200, "Provider assigned successfully", doc,
                                  {reqs[i].provider, doc.customer})
    /\ UNCHANGED <<earnings, points, gifts, statusEnum, uniqueIndex, windows, avail, gen,
                   inflightLimit, budget>>

(***************************************************************************)
(* PATCH /bookings/:id/start.                                              *)
(***************************************************************************)
StartRequest(i, actor, id) ==
    /\ Arrives(i)
    /\ IF ~Authorize(actor, {"provider"}) THEN Reject(i, "start", actor, id, NoBody, 403, MsgRole)
       ELSE IF id \notin DOMAIN bookings THEN Reject(i, "start", actor, id, NoBody, 404, MsgNoBooking)
       ELSE IF bookings[id].provider = Null THEN Reject(i, "start", actor, id, NoBody, 500, MsgTypeError)
       ELSE IF ~IsProvider(bookings[id], actor) THEN Reject(i, "start", actor, id, NoBody, 403, MsgNotAuthorized)
       ELSE IF bookings[id].status # "confirmed"
       THEN Reject(i, "start", actor, id, NoBody, 400, "Can only start confirmed bookings")
       ELSE Admit(i, Request("start", "save", actor, id, Null, 0, NoBody,
                             bookings[id], 0))

\* booking.status = 'in_progress'; booking.startedAt = new Date(); booking.save()
StartSave(i) ==
    /\ Resumes(i, {"start"}, "save")
    /\ LET id == reqs[i].bid
           loaded == reqs[i].doc
           doc == [loaded EXCEPT !.status = "in_progress", !.startedAt = TRUE]
           coll == [bookings EXCEPT ![id] =
                       Stored(bookings[id], doc, ModifiedPaths(loaded, doc) \cup {"startedAt"})]
       IN  IF ValidationFails(doc)
           THEN Finish(i, 500, MsgValidation, NoDoc) /\ UNCHANGED bookings
           ELSE IF DuplicateKey(coll, id)
           THEN Finish(i, 500, MsgDuplicate, NoDoc) /\ UNCHANGED bookings
           ELSE /\ bookings' = coll
                /\ FinishNotified(i, 200, "Service started!", doc, {doc.customer})
    /\ UNCHANGED <<earnings, points, gifts, statusEnum, uniqueIndex, windows, avail, gen,
                   inflightLimit, budget>>

(***************************************************************************)
(* PATCH /bookings/:id/complete and PATCH /bookings/:id/stop.  The read of *)
(* the provider that follows booking.save() is taken in the same step as   *)
(* the save: no other handler's step lies between the two that does not    *)
(* commute with one of them.                                               *)
(***************************************************************************)
CompleteRequest(i, actor, id) ==
    /\ Arrives(i)
    /\ IF ~Authorize(actor, {"provider"}) THEN Reject(i, "complete", actor, id, NoBody, 403, MsgRole)
       ELSE IF id \notin DOMAIN bookings THEN Reject(i, "complete", actor, id, NoBody, 404, MsgNoBooking)
       ELSE IF bookings[id].provider = Null THEN Reject(i, "complete", actor, id, NoBody, 500, MsgTypeError)
       ELSE IF ~IsProvider(bookings[id], actor) THEN Reject(i, "complete", actor, id, NoBody, 403, MsgNotAuthorized)
       ELSE IF bookings[id].status # "confirmed"
       THEN Reject(i, "complete", actor, id, NoBody, 400, "Booking must be confirmed to complete")
       ELSE Admit(i, Request("complete", "save", actor, id, actor, 0, NoBody,
                             bookings[id], 0))

StopRequest(i, actor, id) ==
    /\ Arrives(i)
    /\ IF id \notin DOMAIN bookings THEN Reject(i, "stop", actor, id, NoBody, 404, MsgNoBooking)
       ELSE IF bookings[id].provider = Null THEN Reject(i, "stop", actor, id, NoBody, 500, MsgTypeError)
       ELSE LET isProvider == IsProvider(bookings[id], actor)
                isCustomer == IsCustomer(bookings[id], actor)
            IN  IF ~isProvider /\ ~isCustomer THEN Reject(i, "stop", actor, id, NoBody, 403, MsgNotAuthorized)
                ELSE IF bookings[id].status # "in_progress"
                THEN Reject(i, "stop", actor, id, NoBody, 400, "Can only stop in-progress bookings")
                ELSE Admit(i, Request("stop", "save", actor, id, bookings[id].provider,
                                      0, NoBody, bookings[id], 0))

\* booking.status = 'completed'; booking.save(); User.findById(provider)
CompletedSave(i) ==
    /\ Resumes(i, {"complete", "stop"}, "save")
    /\ LET id == reqs[i].bid
           loaded == reqs[i].doc
           doc == [loaded EXCEPT !.status = "completed"]
           coll == [bookings EXCEPT ![id] = Stored(bookings[id], doc, ModifiedPaths(loaded, doc))]
       IN  IF ValidationFails(doc)
           THEN Finish(i, 500, MsgValidation, NoDoc) /\ UNCHANGED bookings
           ELSE IF DuplicateKey(coll, id)
           THEN Finish(i, 500, MsgDuplicate, NoDoc) /\ UNCHANGED bookings
           ELSE /\ bookings' = coll
                /\ reqs' = [reqs EXCEPT ![i].pc = "credit", ![i].doc = doc,
                                        ![i].read = earnings[reqs[i].provider]]
    /\ UNCHANGED <<earnings, points, gifts, statusEnum, uniqueIndex, windows, avail, gen,
                   inflightLimit, budget>>

\* a credit that is applied only to a balance that does not hold the total yet
CreditedOnce(read, total) == IF read >= total THEN read ELSE read + total

\* provider.earnings = (provider.earnings || 0) + (booking.pricing.total || 0)
Credited(read, total) == read + total

\* a credit of the price before tax
CreditAmountBase(booking) == booking.pricing.base

\* (booking.pricing.total || 0) of the booking the handler holds
CreditAmount(booking) == booking.pricing.total

\* provider.save() and the response
CreditSave(i) ==
    /\ Resumes(i, {"complete", "stop"}, "credit")
    /\ earnings' = [earnings EXCEPT ![reqs[i].provider] =
                       Credited(reqs[i].read, CreditAmount(reqs[i].doc))]
    /\ FinishNotified(i, 200,
              IF reqs[i].op = "complete" THEN "Booking completed and earnings updated"
              ELSE "Service stopped and marked as completed", reqs[i].doc,
              {reqs[i].doc.customer} \cup
              IF reqs[i].op = "stop" /\ reqs[i].actor = reqs[i].doc.customer
              THEN {reqs[i].doc.provider} ELSE {})
    /\ UNCHANGED <<bookings, points, gifts, statusEnum, uniqueIndex, windows, avail, gen,
                   inflightLimit, budget>>

\* error.message of a save the database rejected
MsgSaveFailed == "save failed"

\* provider.save() rejects: the catch block answers 500
CreditFail(i) ==
    /\ Resumes(i, {"complete", "stop"}, "credit")
    /\ Finish(i, 500, MsgSaveFailed, NoDoc)
    /\ UNCHANGED <<bookings, earnings, points, gifts, statusEnum, uniqueIndex, windows,
                   avail, gen, inflightLimit, budget>>

(***************************************************************************)
(* PATCH /bookings/:id/feedback.                                           *)
(***************************************************************************)
MsgFeedback == "Feedback saved and points awarded"

FeedbackRequest(i, actor, id, rating) ==
    /\ Arrives(i)
    /\ IF ~Authorize(actor, {"customer"}) THEN Reject(i, "feedback", actor, id, NoBody, 403, MsgRole)
       ELSE IF id \notin DOMAIN bookings THEN Reject(i, "feedback", actor, id, NoBody, 404, MsgNoBooking)
       ELSE IF ~IsCustomer(bookings[id], actor) THEN Reject(i, "feedback", actor, id, NoBody, 403, MsgNotAuthorized)
       ELSE IF bookings[id].status # "completed"
       THEN Reject(i, "feedback", actor, id, NoBody, 400, "Can only leave feedback for completed bookings")
       ELSE Admit(i, Request("feedback", "save", actor, id, bookings[id].provider,
                             rating, NoBody, bookings[id], 0))

\* booking.feedback = { rating, comment }; booking.save(); then, for a booking
\* with a provider, User.findById(booking.provider)
FeedbackSave(i) ==
    /\ Resumes(i, {"feedback"}, "save")
    /\ LET id == reqs[i].bid
           loaded == reqs[i].doc
           doc == [loaded EXCEPT !.feedback = reqs[i].rating]
       IN  /\ bookings' = [bookings EXCEPT ![id] =
                             Stored(bookings[id], doc, {"feedback"})]
           /\ IF loaded.provider # Null
              THEN /\ reqs' = [reqs EXCEPT ![i].pc = "award", ![i].doc = doc,
                                           ![i].read = points[loaded.provider]]
                 ELSE Finish(i, 200, MsgFeedback, doc)
    /\ UNCHANGED <<earnings, points, gifts, statusEnum, uniqueIndex, windows, avail, gen,
                   inflightLimit, budget>>

GiftThreshold == 100

PointsAwarded(rating) == IF rating >= 4 THEN 10 ELSE IF rating >= 3 THEN 5 ELSE 0

\* the comparison of the comment above the code: points > 100
EarnsGiftAbove(balance) == balance > GiftThreshold

\* if (provider.points >= 100) { gifts.push(...); provider.points -= 100 }
EarnsGift(balance) == balance >= GiftThreshold

\* provider.save(): $set of points when it changed, $push of the new gift
PointsSave(i) ==
    /\ Resumes(i, {"feedback"}, "award")
    /\ LET p == reqs[i].provider
           balance == reqs[i].read + PointsAwarded(reqs[i].rating)
           after == IF EarnsGift(balance) THEN balance - GiftThreshold ELSE balance
       IN  /\ points' = IF after # reqs[i].read THEN [points EXCEPT ![p] = after]
                        ELSE points
           /\ gifts' = IF EarnsGift(balance) THEN [gifts EXCEPT ![p] = @ + 1] ELSE gifts
    /\ Finish(i, 200, MsgFeedback, reqs[i].doc)
    /\ UNCHANGED <<bookings, earnings, statusEnum, uniqueIndex, windows, avail, gen,
                   inflightLimit, budget>>

(***************************************************************************)
(* GET /services/:id/availability.  Times of day are minutes after         *)
(* midnight; a time string 'HH:MM' is the pair <<hh, mm>>, <<>> when the   *)
(* field is absent.                                                        *)
(***************************************************************************)
\* [h, m] = str.split(':').map(Number); h * 60 + m
Minutes(t) == t[1] * 60 + t[2]

\* (window.startTime || '00:00')
WindowStart(w) == IF w.startTime = <<>> THEN 0 ELSE Minutes(w.startTime)

\* (window.endTime || '23:59')
WindowEnd(w) == IF w.endTime = <<>> THEN 23 * 60 + 59 ELSE Minutes(w.endTime)

\* return null
NoPrice == -1

\* a lookup that answers with the last window that holds the slot
GetSlotPriceInfoLast(pricing, currentTotalMin, endTotalMin) ==
    LET hits == SelectSeq(pricing, LAMBDA w :
                    currentTotalMin >= WindowStart(w) /\ endTotalMin <= WindowEnd(w))
    IN  IF hits = <<>> THEN NoPrice ELSE hits[Len(hits)].price

\* getSlotPriceInfo: the price of the first window that holds the slot
GetSlotPriceInfo(pricing, currentTotalMin, endTotalMin) ==
    LET hits == SelectSeq(pricing, LAMBDA w :
                    currentTotalMin >= WindowStart(w) /\ endTotalMin <= WindowEnd(w))
    IN  IF hits = <<>> THEN NoPrice ELSE hits[1].price

\* a rendering that takes noon for a morning hour
FormatSlotTimeNoonAm(min) ==
    LET h == min \div 60
        h12 == IF h % 12 = 0 THEN 12 ELSE h % 12
    IN  <<h12, min % 60, IF h > 12 THEN "pm" ELSE "am">>

\* formatSlotTime: 12-hour clock, two digits, lowercase am/pm
FormatSlotTime(min) ==
    LET h == min \div 60
        h12 == IF h % 12 = 0 THEN 12 ELSE h % 12
    IN  <<h12, min % 60, IF h >= 12 THEN "pm" ELSE "am">>

TimeSlotLabel(current, slotEnd) == FormatSlotTime(current) \o FormatSlotTime(slotEnd)

\* the pricings the Service document of the model may hold
ExampleWindows ==
    << [timeSlot |-> <<>>, startTime |-> <<9, 0>>, endTime |-> <<11, 0>>, price |-> 400] >>

OverlappingWindows ==
    << [timeSlot |-> <<>>, startTime |-> <<9, 0>>, endTime |-> <<11, 0>>, price |-> 100],
       [timeSlot |-> <<>>, startTime |-> <<9, 30>>, endTime |-> <<11, 30>>, price |-> 200],
       [timeSlot |-> <<>>, startTime |-> <<9, 0>>, endTime |-> <<12, 0>>, price |-> 300] >>

GappedWindows ==
    << [timeSlot |-> <<>>, startTime |-> <<10, 0>>, endTime |-> <<13, 0>>, price |-> 300],
       [timeSlot |-> <<>>, startTime |-> <<>>, endTime |-> <<9, 30>>, price |-> 50] >>

\* the documents of the Service schema with time windows
WindowLists == {ExampleWindows, OverlappingWindows, GappedWindows}

\* the documents the Service collection may hold, of either schema
PricingLists == WindowLists \cup {LabelledPricing}

\* Number(part) of a part that is not a number, and every value computed
\* from it: NaN, which no comparison holds of
NaN == -999999

\* provider.workingHours: free strings.  '17', without a colon, is the
\* tuple <<17>>; 'ab:cd', whose parts are not numbers, is <<NaN, NaN>>.
WorkingHours(u) ==
    CASE u = "p2" -> [start |-> <<9, 30>>, end |-> <<13, 0>>]
      [] u = "p3" -> [start |-> <<22, 0>>, end |-> <<6, 0>>]
      [] u = "p4" -> [start |-> <<0, 0>>, end |-> <<23, 59>>]
      [] u = "p5" -> [start |-> <<9, 0>>, end |-> <<17>>]
      [] u = "p6" -> [start |-> <<8, 0>>, end |-> <<NaN, NaN>>]
      [] u = "p7" -> [start |-> <<NaN, NaN>>, end |-> <<18, 0>>]
      [] u = "p8" -> [start |-> <<13, 0>>, end |-> <<9, 30>>]
      [] OTHER -> [start |-> <<>>, end |-> <<>>]

\* provider.workingHours?.start || '08:00'
StartStr(u) == IF WorkingHours(u).start = <<>> THEN <<8, 0>> ELSE WorkingHours(u).start

\* provider.workingHours?.end || '20:00'
EndStr(u) == IF WorkingHours(u).end = <<>> THEN <<20, 0>> ELSE WorkingHours(u).end

\* str.includes(':')
IncludesColon(str) == Len(str) >= 2

\* [h, m] = str.split(':').map(Number); h * 60 + m
HoursToMinutes(str) ==
    IF Len(str) < 2 \/ str[1] = NaN \/ str[2] = NaN THEN NaN ELSE str[1] * 60 + str[2]

\* providerStartMin, and the minutes of the day at which current starts
WorkingStart(u) == HoursToMinutes(StartStr(u))

\* providerEndMin
WorkingEnd(u) == HoursToMinutes(EndStr(u))

\* new Date(t.getTime() + minutes * 60000), in minutes after the midnight of
\* the reference day; an invalid date stays invalid
AddMinutes(t, minutes) == IF t = NaN THEN NaN ELSE t + minutes

StepMinutes == 30
MaxSteps == 100
DayMinutes == 1440

\* providerBusyRanges: the ranges of the existing bookings of the provider
ProviderBusyRanges(u, existing) ==
    {BusyRange(existing[k].timeSlot) :
        k \in {j \in DOMAIN existing : existing[j].provider = u}}

\* a loop that leaves at the provider's hours only
LoopBreaksAtHoursOnly(u, slotEnd) ==
    slotEnd # NaN /\ WorkingEnd(u) # NaN /\ slotEnd % DayMinutes > WorkingEnd(u)

\* if (slotEnd.getDate() !== 1 || endMin > providerEndMin) break
LoopBreaks(u, slotEnd) ==
    \/ slotEnd = NaN
    \/ slotEnd < 0
    \/ slotEnd >= DayMinutes
    \/ WorkingEnd(u) # NaN /\ slotEnd % DayMinutes > WorkingEnd(u)

\* the slot that one iteration pushes, if the candidate has a price
CandidateSlot(u, ranges, pricing, current, slotEnd) ==
    LET curMin == current % DayMinutes
        endMin == slotEnd % DayMinutes
        price == GetSlotPriceInfo(pricing, curMin, endMin)
    IN  IF price = NoPrice THEN <<>>
        ELSE << [timeSlot |-> TimeSlotLabel(curMin, endMin), startTime |-> current,
                 price |-> price,
                 isAvailable |-> ~\E r \in ranges :
                                    Overlaps([start |-> curMin, end |-> endMin], r),
                 providerId |-> u] >>

\* a loop that stops at the first candidate without a price
RECURSIVE SlotLoopStopAtGap(_, _, _, _, _, _)
SlotLoopStopAtGap(u, ranges, pricing, duration, current, safety) ==
    LET slotEnd == AddMinutes(current, duration)
        slot == CandidateSlot(u, ranges, pricing, current, slotEnd)
    IN  IF safety >= MaxSteps THEN <<>>
        ELSE IF LoopBreaks(u, slotEnd) THEN <<>>
        ELSE IF slot = <<>> THEN <<>>
        ELSE slot \o SlotLoopStopAtGap(u, ranges, pricing, duration,
                                       AddMinutes(current, StepMinutes), safety + 1)

\* the while loop of generateProviderSlots
RECURSIVE SlotLoop(_, _, _, _, _, _)
SlotLoop(u, ranges, pricing, duration, current, safety) ==
    LET slotEnd == AddMinutes(current, duration)
    IN  IF safety >= MaxSteps THEN <<>>
        ELSE IF LoopBreaks(u, slotEnd) THEN <<>>
        ELSE CandidateSlot(u, ranges, pricing, current, slotEnd)
             \o SlotLoop(u, ranges, pricing, duration, AddMinutes(current, StepMinutes),
                         safety + 1)

\* generateProviderSlots: [] for hours without a colon, else the loop
GenerateProviderSlots(u, existing, pricing, duration) ==
    IF ~IncludesColon(StartStr(u)) \/ ~IncludesColon(EndStr(u)) THEN <<>>
    ELSE SlotLoop(u, ProviderBusyRanges(u, existing), pricing, duration, WorkingStart(u), 0)

\* User.find with $near: the documents of S, nearest first
RECURSIVE NearestFirst(_, _)
NearestFirst(S, point) ==
    IF S = {} THEN <<>>
    ELSE LET u == CHOOSE x \in S : \A v \in S :
                      GeoDistance(Location(x), point) <= GeoDistance(Location(v), point)
         IN  <<u>> \o NearestFirst(S \ {u}, point)

\* allEligibleProviders
AllEligibleProviders(name, point) ==
    NearestFirst({u \in Users :
                    /\ Role(u) = "provider"
                    /\ IsVerified(u)
                    /\ CategoryRegexMatches(name, ServiceCategory(u))
                    /\ GeoDistance(Location(u), point) <= MaxDistance}, point)

\* existingBookings
ExistingBookings(providerIds, date) ==
    SelectSeq(bookings, LAMBDA b :
        /\ b.provider \in providerIds
        /\ b.date = date
        /\ b.status \in {"pending", "confirmed", "in progress"})

\* allAvailableSlots: the slots of the providers, concatenated in their order
RECURSIVE AllAvailableSlots(_, _, _, _)
AllAvailableSlots(providers, existing, pricing, duration) ==
    IF providers = <<>> THEN <<>>
    ELSE GenerateProviderSlots(Head(providers), existing, pricing, duration)
         \o AllAvailableSlots(Tail(providers), existing, pricing, duration)

\* a merge that counts every provider that emitted the label
MergeSlotCountAll(map, s) ==
    IF \E k \in DOMAIN map : map[k].timeSlot = s.timeSlot
    THEN [k \in DOMAIN map |->
            IF map[k].timeSlot = s.timeSlot
            THEN [map[k] EXCEPT !.isAvailable = @ \/ s.isAvailable,
                                !.remainingSpots = @ + 1]
            ELSE map[k]]
    ELSE Append(map, [timeSlot |-> s.timeSlot, price |-> s.price,
                      isAvailable |-> s.isAvailable,
                      remainingSpots |-> 1,
                      startTime |-> s.startTime])

\* one iteration of allAvailableSlots.forEach over uniqueSlotsMap, a Map kept
\* here in insertion order
MergeSlot(map, s) ==
    IF \E k \in DOMAIN map : map[k].timeSlot = s.timeSlot
    THEN [k \in DOMAIN map |->
            IF map[k].timeSlot = s.timeSlot
            THEN [map[k] EXCEPT !.isAvailable = @ \/ s.isAvailable,
                                !.remainingSpots = IF s.isAvailable THEN @ + 1 ELSE @]
            ELSE map[k]]
    ELSE Append(map, [timeSlot |-> s.timeSlot, price |-> s.price,
                      isAvailable |-> s.isAvailable,
                      remainingSpots |-> IF s.isAvailable THEN 1 ELSE 0,
                      startTime |-> s.startTime])

RECURSIVE UniqueSlotsMap(_)
UniqueSlotsMap(slots) ==
    IF slots = <<>> THEN <<>>
    ELSE MergeSlot(UniqueSlotsMap(SubSeq(slots, 1, Len(slots) - 1)), slots[Len(slots)])

\* x placed behind the entries that do not start later: a stable sort step
InsertByStartTime(sorted, x) ==
    LET n == Cardinality({k \in DOMAIN sorted : sorted[k].startTime <= x.startTime})
    IN  SubSeq(sorted, 1, n) \o <<x>> \o SubSeq(sorted, n + 1, Len(sorted))

\* a listing left in the order of the map
SortedAvailabilityUnsorted(list) == list

\* Array.from(uniqueSlotsMap.values()).sort((a, b) => a.startTime - b.startTime)
RECURSIVE SortedAvailability(_)
SortedAvailability(list) ==
    IF list = <<>> THEN <<>>
    ELSE InsertByStartTime(SortedAvailability(SubSeq(list, 1, Len(list) - 1)),
                           list[Len(list)])

\* the start of a label as the filter parses it
SlotTotalMin(label) ==
    LET h == label[1]
        ampm == IF label[3] \in {"pm", "PM"} THEN "pm" ELSE "am"
        h1 == IF ampm = "pm" /\ h < 12 THEN h + 12 ELSE h
        h2 == IF ampm = "am" /\ h1 = 12 THEN 0 ELSE h1
    IN  h2 * 60 + label[2]

\* a filter that keeps the slot that starts in the current minute
FilterPastInclusive(list, isToday, currentTotalMin) ==
    IF isToday
    THEN SelectSeq(list, LAMBDA slot : SlotTotalMin(slot.timeSlot) >= currentTotalMin)
    ELSE list

\* if (isToday) sortedAvailability = sortedAvailability.filter(...)
FilterPast(list, isToday, currentTotalMin) ==
    IF isToday
    THEN SelectSeq(list, LAMBDA slot : SlotTotalMin(slot.timeSlot) > currentTotalMin)
    ELSE list

\* Number(service.baseDuration)
BaseDuration(s) == 60

\* Number(req.query.duration) || Number(service.baseDuration) || 60
Duration(query, s) ==
    IF query # 0 THEN query ELSE IF BaseDuration(s) # 0 THEN BaseDuration(s) ELSE 60

NoAvail ==
    [pc |-> "idle", code |-> 0, serviceId |-> Null, date |-> Null, duration |-> 0,
     point |-> 0, isToday |-> FALSE, currentTotalMin |-> 0, providers |-> <<>>,
     slots |-> <<>>, availability |-> <<>>]

\* the handler; its reads see one state of the collections
AvailabilityRequest(serviceId, date, duration, point, today, nowMin) ==
    /\ Delivered
    /\ avail' =
         IF date = Null \/ point = NoLocation
         THEN [NoAvail EXCEPT !.pc = "done", !.code = 400, !.serviceId = serviceId,
                              !.date = date, !.point = point]
         ELSE IF serviceId \notin Services
         THEN [NoAvail EXCEPT !.pc = "done", !.code = 404, !.serviceId = serviceId,
                              !.date = date, !.point = point]
         ELSE LET d == Duration(duration, serviceId)
                  providers == AllEligibleProviders(ServiceName(serviceId), point)
                  existing == ExistingBookings({providers[k] : k \in DOMAIN providers}, date)
                  slots == AllAvailableSlots(providers, existing, windows, d)
                  isToday == date = today
              IN  [pc |-> "done", code |-> 200, serviceId |-> serviceId, date |-> date,
                   duration |-> d, point |-> point, isToday |-> isToday,
                   currentTotalMin |-> nowMin, providers |-> providers, slots |-> slots,
                   availability |->
                       FilterPast(SortedAvailability(UniqueSlotsMap(slots)), isToday, nowMin)]
    /\ UNCHANGED <<bookings, earnings, points, gifts, reqs, statusEnum, uniqueIndex,
                   windows, gen, inflightLimit, budget>>

\* the response is sent
AvailabilityRespond ==
    /\ avail.pc = "done"
    /\ avail' = NoAvail
    /\ UNCHANGED <<bookings, earnings, points, gifts, reqs, statusEnum, uniqueIndex,
                   windows, gen, inflightLimit, budget>>

(***************************************************************************)
(* generateProviderSlots, one iteration of its loop per step, and the two  *)
(* conversions of a label: formatSlotTime of a candidate and the parse of  *)
(* a stored label into a busy range.                                       *)
(***************************************************************************)
NoGen ==
    [pc |-> "idle", provider |-> Null, date |-> Null, duration |-> 0, current |-> 0,
     safety |-> 0, slots |-> <<>>, label |-> <<>>, range |-> [start |-> 0, end |-> 0]]

\* let current = new Date(2000, 0, 1, startH, startM); let safety = 0
GenerateStart(u, date, duration) ==
    /\ gen.pc = "idle"
    /\ gen' = IF ~IncludesColon(StartStr(u)) \/ ~IncludesColon(EndStr(u))
              THEN [NoGen EXCEPT !.pc = "return", !.provider = u, !.date = date,
                                 !.duration = duration]
              ELSE [NoGen EXCEPT !.pc = "loop", !.provider = u, !.date = date,
                                 !.duration = duration, !.current = WorkingStart(u)]
    /\ UNCHANGED <<bookings, earnings, points, gifts, reqs, statusEnum, uniqueIndex,
                   windows, avail, inflightLimit, budget>>

\* while (safety < 100) { safety++; ...; current += 30 min }
GenerateStep ==
    /\ gen.pc = "loop"
    /\ LET u == gen.provider
           slotEnd == AddMinutes(gen.current, gen.duration)
           ranges == ProviderBusyRanges(u, ExistingBookings({u}, gen.date))
       IN  gen' =
             IF gen.safety >= MaxSteps THEN [gen EXCEPT !.pc = "return"]
             ELSE IF LoopBreaks(u, slotEnd)
             THEN [gen EXCEPT !.pc = "return", !.safety = @ + 1]
             ELSE [gen EXCEPT !.safety = @ + 1,
                              !.slots = @ \o CandidateSlot(u, ranges, windows,
                                                           gen.current, slotEnd),
                              !.current = AddMinutes(@, StepMinutes)]
    /\ UNCHANGED <<bookings, earnings, points, gifts, reqs, statusEnum, uniqueIndex,
                   windows, avail, inflightLimit, budget>>

\* timeSlotLabel = `${formatSlotTime(current)} - ${formatSlotTime(slotEnd)}`
FormatLabel(current, slotEnd) ==
    /\ gen.pc = "idle"
    /\ gen' = [NoGen EXCEPT !.pc = "label", !.current = current,
                            !.duration = slotEnd - current,
                            !.label = TimeSlotLabel(current, slotEnd)]
    /\ UNCHANGED <<bookings, earnings, points, gifts, reqs, statusEnum, uniqueIndex,
                   windows, avail, inflightLimit, budget>>

\* the map of providerBusyRanges over a booking that holds the label
ParseLabel ==
    /\ gen.pc = "label"
    /\ gen' = [gen EXCEPT !.pc = "parsed", !.range = BusyRange(gen.label)]
    /\ UNCHANGED <<bookings, earnings, points, gifts, reqs, statusEnum, uniqueIndex,
                   windows, avail, inflightLimit, budget>>

\* return slots
GenerateReturn ==
    /\ gen.pc \in {"return", "parsed"}
    /\ gen' = NoGen
    /\ UNCHANGED <<bookings, earnings, points, gifts, reqs, statusEnum, uniqueIndex,
                   windows, avail, inflightLimit, budget>>

(***************************************************************************)
(* The state machine.                                                      *)
(***************************************************************************)
InitData ==
    /\ bookings = <<>>
    /\ earnings = [p \in Providers |-> 0]
    /\ points = [p \in Providers |-> 0]
    /\ gifts = [p \in Providers |-> 0]
    /\ reqs = [i \in ReqSlots |-> Idle]
    /\ avail = NoAvail
    /\ gen = NoGen
    /\ \/ statusEnum = EnumSpace /\ uniqueIndex = TRUE
       \/ statusEnum = EnumUnderscore /\ uniqueIndex \in BOOLEAN

\* requests overlap
Init ==
    /\ InitData
    /\ windows = LabelledPricing
    /\ inflightLimit = MaxInflight
    /\ budget = MaxOpsConcurrent

\* one request at a time
InitSeq ==
    /\ InitData
    /\ windows = LabelledPricing
    /\ inflightLimit = 1
    /\ budget = MaxOps

\* the inputs the requests of the model are drawn from
CreateActors == {"c1", "p1"}
AssignActors == {"admin", "c1"}
AssignTargets == {"p1", "p2", "p3", "p4", "c2"}
ProviderActors == {"p1", "p2", "c1"}
StopActors == {"p1", "p2", "c1", "c2"}
FeedbackActors == {"c1", "c2", "p1"}

Next ==
    \E i \in ReqSlots :
        \/ \E actor \in CreateActors, serviceId \in ServiceIds, date \in Dates,
              timeSlot \in Slots, location \in Origins \cup {NoLocation} :
                CreateRequest(i, actor, serviceId, date, timeSlot, location)
        \/ CreateSave(i)
        \/ \E actor \in AssignActors, id \in BookingIds, providerId \in AssignTargets :
                AssignRequest(i, actor, id, providerId)
        \/ AssignSave(i)
        \/ \E actor \in ProviderActors, id \in BookingIds : StartRequest(i, actor, id)
        \/ StartSave(i)
        \/ \E actor \in ProviderActors, id \in BookingIds : CompleteRequest(i, actor, id)
        \/ \E actor \in StopActors, id \in BookingIds : StopRequest(i, actor, id)
        \/ CompletedSave(i)
        \/ CreditSave(i)
        \/ \E actor \in FeedbackActors, id \in BookingIds, rating \in Ratings :
                FeedbackRequest(i, actor, id, rating)
        \/ FeedbackSave(i)
        \/ PointsSave(i)
        \/ Respond(i)

Spec == Init /\ [][Next]_vars

SpecSeq == InitSeq /\ [][Next]_vars

\* A later state of the same program: c1's booking with p1 is completed and
\* has feedback, and p1's balance is one of StartBalances, each of which
\* repeated feedback on that booking reaches.
StartBalances == {0, 85, 90, 95}

InitPoints ==
    /\ bookings = << [customer |-> "c1", provider |-> "p1", service |-> "s1",
                      date |-> "d1", timeSlot |-> SlotA, status |-> "completed",
                      startedAt |-> FALSE, pricing |-> Pricing(100), feedback |-> 3] >>
    /\ earnings = [p \in Providers |-> IF p = "p1" THEN Pricing(100).total ELSE 0]
    /\ points \in {[p \in Providers |-> IF p = "p1" THEN b ELSE 0] : b \in StartBalances}
    /\ gifts = [p \in Providers |-> 0]
    /\ reqs = [i \in ReqSlots |-> Idle]
    /\ avail = NoAvail
    /\ gen = NoGen
    /\ \/ statusEnum = EnumSpace /\ uniqueIndex = TRUE
       \/ statusEnum = EnumUnderscore /\ uniqueIndex \in BOOLEAN
    /\ windows = LabelledPricing
    /\ inflightLimit = 1
    /\ budget = MaxOpsPoints

SpecPoints == InitPoints /\ [][Next]_vars

\* A later state of the same program: c1 holds two confirmed bookings with
\* p1, for the two labels of the pricing.  Start, complete and stop
\* requests overlap.
TwoConfirmed ==
    << [customer |-> "c1", provider |-> "p1", service |-> "s1",
        date |-> "d1", timeSlot |-> SlotA, status |-> "confirmed",
        startedAt |-> FALSE, pricing |-> Pricing(100), feedback |-> 0],
       [customer |-> "c1", provider |-> "p1", service |-> "s1",
        date |-> "d1", timeSlot |-> SlotB, status |-> "confirmed",
        startedAt |-> FALSE, pricing |-> Pricing(200), feedback |-> 0] >>

InitEarn ==
    /\ bookings = TwoConfirmed
    /\ earnings = [p \in Providers |-> 0]
    /\ points = [p \in Providers |-> 0]
    /\ gifts = [p \in Providers |-> 0]
    /\ reqs = [i \in ReqSlots |-> Idle]
    /\ avail = NoAvail
    /\ gen = NoGen
    /\ \/ statusEnum = EnumSpace /\ uniqueIndex = TRUE
       \/ statusEnum = EnumUnderscore /\ uniqueIndex \in BOOLEAN
    /\ windows = LabelledPricing
    /\ inflightLimit = MaxInflight
    /\ budget = MaxOpsConcurrent

NextEarn ==
    \E i \in ReqSlots :
        \/ \E actor \in ProviderActors, id \in BookingIds : StartRequest(i, actor, id)
        \/ StartSave(i)
        \/ \E actor \in ProviderActors, id \in BookingIds : CompleteRequest(i, actor, id)
        \/ \E actor \in StopActors, id \in BookingIds : StopRequest(i, actor, id)
        \/ CompletedSave(i)
        \/ CreditSave(i)
        \/ Respond(i)

SpecEarn == InitEarn /\ [][NextEarn]_vars

\* The same two bookings with one request at a time, where the database
\* may reject the save of the provider document.
InitFail ==
    /\ bookings = TwoConfirmed
    /\ earnings = [p \in Providers |-> 0]
    /\ points = [p \in Providers |-> 0]
    /\ gifts = [p \in Providers |-> 0]
    /\ reqs = [i \in ReqSlots |-> Idle]
    /\ avail = NoAvail
    /\ gen = NoGen
    /\ \/ statusEnum = EnumSpace /\ uniqueIndex = TRUE
       \/ statusEnum = EnumUnderscore /\ uniqueIndex \in BOOLEAN
    /\ windows = LabelledPricing
    /\ inflightLimit = 1
    /\ budget = MaxOps

NextFail ==
    \/ NextEarn
    \/ \E i \in ReqSlots : CreditFail(i)

SpecFail == InitFail /\ [][NextFail]_vars

\* The availability query over the bookings that creation and start leave,
\* for each pricing of PricingLists.
InitAvail ==
    /\ InitData
    /\ windows \in PricingLists
    /\ inflightLimit = 1
    /\ budget = MaxOpsAvail

AvailServiceIds == ServiceIds
AvailDates == Dates \cup {Null}
AvailDurations == {0, 60, 120}
AvailOrigins == {1000, 5500, 46000}
TodayDates == Dates \cup {"d0"}
NowMinutes == {539, 540, 600}

NextAvail ==
    \/ \E i \in ReqSlots :
        \/ \E timeSlot \in {SlotA, SlotB}, location \in Origins :
                CreateRequest(i, "c1", "s1", "d1", timeSlot, location)
        \/ CreateSave(i)
        \/ \E actor \in {"p1", "p2"}, id \in BookingIds : StartRequest(i, actor, id)
        \/ StartSave(i)
        \/ Respond(i)
    \/ \E serviceId \in AvailServiceIds, date \in AvailDates,
          duration \in AvailDurations, point \in AvailOrigins \cup {NoLocation},
          today \in TodayDates, nowMin \in NowMinutes :
            AvailabilityRequest(serviceId, date, duration, point, today, nowMin)
    \/ AvailabilityRespond

SpecAvail == InitAvail /\ [][NextAvail]_vars

\* The availability query from points that reach the providers whose
\* working hours are malformed, for each pricing with time windows.
InitHours ==
    /\ InitData
    /\ windows \in WindowLists
    /\ inflightLimit = 1
    /\ budget = 0

HoursOrigins == {-25000, -36000, 1000}

NextHours ==
    \/ \E serviceId \in AvailServiceIds, duration \in AvailDurations,
          point \in HoursOrigins, today \in TodayDates, nowMin \in NowMinutes :
            AvailabilityRequest(serviceId, "d1", duration, point, today, nowMin)
    \/ AvailabilityRespond

SpecHours == InitHours /\ [][NextHours]_vars

\* The generator alone, for each provider's working hours, each pricing of
\* WindowLists and each duration of LoopDurations.
InitGen ==
    /\ bookings = <<>>
    /\ earnings = [p \in Providers |-> 0]
    /\ points = [p \in Providers |-> 0]
    /\ gifts = [p \in Providers |-> 0]
    /\ reqs = [i \in ReqSlots |-> Idle]
    /\ avail = NoAvail
    /\ gen = NoGen
    /\ statusEnum = EnumUnderscore
    /\ uniqueIndex = FALSE
    /\ windows \in WindowLists
    /\ inflightLimit = 1
    /\ budget = 0

LoopDurations == {-60, 1, 60, 1500}

NextGen ==
    \/ \E u \in Providers, date \in Dates, duration \in LoopDurations :
            GenerateStart(u, date, duration)
    \/ GenerateStep
    \/ GenerateReturn

SpecGen == InitGen /\ [][NextGen]_vars

\* The two conversions of a label, for the labels of the day's minutes.
InitLabels ==
    /\ bookings = <<>>
    /\ earnings = [p \in Providers |-> 0]
    /\ points = [p \in Providers |-> 0]
    /\ gifts = [p \in Providers |-> 0]
    /\ reqs = [i \in ReqSlots |-> Idle]
    /\ avail = NoAvail
    /\ gen = NoGen
    /\ statusEnum = EnumUnderscore
    /\ uniqueIndex = FALSE
    /\ windows = ExampleWindows
    /\ inflightLimit = 1
    /\ budget = 0

DayTimes == 0 .. DayMinutes - 1
SampleDayTimes == {0, 45, 12 * 60, DayMinutes - 1}

NextLabels ==
    \/ /\ gen.pc = "idle"
       /\ \E current \in DayTimes, slotEnd \in SampleDayTimes :
              FormatLabel(current, slotEnd)
    \/ /\ gen.pc = "idle"
       /\ \E current \in SampleDayTimes, slotEnd \in DayTimes :
              FormatLabel(current, slotEnd)
    \/ ParseLabel
    \/ GenerateReturn

SpecLabels == InitLabels /\ [][NextLabels]_vars

(***************************************************************************)
(* Properties of the booking lifecycle.                                    *)
(***************************************************************************)
ActiveStatuses == {"pending", "confirmed", "in_progress"}

IsActive(b) == b.status \in ActiveStatuses

SameSlot(a, b) ==
    /\ a.provider # Null
    /\ a.provider = b.provider
    /\ a.date = b.date
    /\ a.timeSlot = b.timeSlot

\* request i arrives in this step
Arriving(i, op) == reqs[i] = Idle /\ reqs'[i].op = op

\* request i ends in this step, from the await at pc
Ending(i, op, pc) ==
    reqs[i].op = op /\ reqs[i].pc = pc /\ reqs'[i].op = op /\ reqs'[i].pc = "done"

\* C1: over any sequence of create, assign, start, complete, stop and
\* feedback, at most one booking in an active status (pending, confirmed,
\* in_progress) exists for any non-null (provider, date, timeSlot).
UniqueActivePerSlot ==
    \A j, k \in DOMAIN bookings :
        j # k => ~(/\ SameSlot(bookings[j], bookings[k])
                   /\ IsActive(bookings[j])
                   /\ IsActive(bookings[k]))

\* C2: of two creation requests that overlap and selected the same provider
\* for the same date and timeSlot, only one creates its booking: a creation
\* never succeeds while another booking of that provider, date and timeSlot
\* is active.
ConcurrentCreatesExclusive ==
    [][\A i \in ReqSlots :
          (Ending(i, "create", "create") /\ reqs[i].provider # Null
           /\ reqs'[i].code = 201)
          => ~\E k \in DOMAIN bookings :
                 SameSlot(reqs[i].doc, bookings[k]) /\ IsActive(bookings[k])]_vars

\* C3: no provider holds two active bookings on one date whose time
\* intervals overlap, whatever their labels.
NoOverlappingActive ==
    \A j, k \in DOMAIN bookings :
        j # k => ~(/\ bookings[j].provider # Null
                   /\ bookings[j].provider = bookings[k].provider
                   /\ bookings[j].date = bookings[k].date
                   /\ IsActive(bookings[j])
                   /\ IsActive(bookings[k])
                   /\ Overlaps(BusyRange(bookings[j].timeSlot),
                               BusyRange(bookings[k].timeSlot)))

\* C4: a creation selects a provider exactly when the search finds one; a
\* successful creation stores status confirmed with the selected provider,
\* or status pending with a null provider and the message 'No provider
\* available at this time. Booking is pending.' when none was found.
CreationOutcome ==
    [][\A i \in ReqSlots :
          /\ (Arriving(i, "create") /\ reqs'[i].pc = "create")
             => LET b == reqs'[i].body
                    found == {u \in Users :
                                Eligible(u, ServiceName(b.serviceId),
                                         BusyProviders(b.date, b.timeSlot), b.location)}
                IN  IF found = {} THEN reqs'[i].provider = Null
                    ELSE reqs'[i].provider \in found
          /\ (Ending(i, "create", "create") /\ reqs'[i].code = 201)
             => /\ Len(bookings') = Len(bookings) + 1
                /\ LET b == bookings'[Len(bookings')]
                   IN  /\ b.provider = reqs[i].provider
                       /\ b.customer = reqs[i].actor
                       /\ IF reqs[i].provider # Null
                          THEN b.status = "confirmed"
                          ELSE /\ b.status = "pending"
                               /\ reqs'[i].message = MsgPending]_vars

\* a creation answered 201 with the pending message, its booking stored
\* pending without a provider
CreationOutcomeWitness ==
    \E i \in ReqSlots :
        /\ reqs[i].op = "create" /\ reqs[i].pc = "done" /\ reqs[i].code = 201
        /\ reqs[i].message = MsgPending
        /\ Len(bookings) = 2
        /\ bookings[1].status = "confirmed" /\ bookings[1].provider # Null
        /\ bookings[2].status = "pending" /\ bookings[2].provider = Null

InvalidBody(b) ==
    \/ b.location = NoLocation
    \/ b.serviceId \notin Services
    \/ ~\E k \in DOMAIN ServicePricing(b.serviceId) :
           ServicePricing(b.serviceId)[k].timeSlot = b.timeSlot

\* C6: a creation request whose slot no pricing entry of the service
\* covers, whose service id is unknown or whose location is missing is
\* rejected as invalid input, and the bookings stay as they were.
InvalidCreationRejected ==
    [][\A i \in ReqSlots :
          (Arriving(i, "create") /\ Role(reqs'[i].actor) = "customer"
           /\ InvalidBody(reqs'[i].body))
          => /\ reqs'[i].pc = "done"
             /\ reqs'[i].code \in {400, 404}
             /\ bookings' = bookings]_vars

\* a creation for the unpriced slot was answered 400 while a booking exists
InvalidCreationWitness ==
    \E i \in ReqSlots :
        /\ reqs[i].op = "create" /\ reqs[i].pc = "done" /\ reqs[i].code = 400
        /\ reqs[i].body.timeSlot = SlotC
        /\ reqs[i].body.serviceId \in Services
        /\ reqs[i].body.location # NoLocation
        /\ Len(bookings) = 1

\* the edges of the lifecycle
StatusEdges ==
    {<<"pending", "confirmed">>, <<"confirmed", "in_progress">>,
     <<"in_progress", "completed">>, <<"pending", "cancelled">>,
     <<"confirmed", "cancelled">>}

\* C7: every change of a booking's status follows one of the edges
\* pending -> confirmed, confirmed -> in_progress, in_progress -> completed,
\* pending -> cancelled, confirmed -> cancelled.
StatusFollowsEdges ==
    [][\A k \in DOMAIN bookings :
          bookings'[k].status # bookings[k].status
          => <<bookings[k].status, bookings'[k].status>> \in StatusEdges]_vars

\* the totals of the first n bookings that p completed
RECURSIVE CompletedTotal(_, _)
CompletedTotal(p, n) ==
    IF n = 0 THEN 0
    ELSE CompletedTotal(p, n - 1)
         + (IF bookings[n].provider = p /\ bookings[n].status = "completed"
            THEN bookings[n].pricing.total ELSE 0)

\* C8: with one request at a time, a provider's earnings are the sum of the
\* totals of the bookings that provider completed, each counted once.
EarningsMatchCompleted ==
    InFlight = {}
    => \A p \in Providers : earnings[p] = CompletedTotal(p, Len(bookings))

\* C9: once a booking has feedback, a further feedback request of its
\* customer is not applied: no feedback is written, and so no points are
\* awarded, for a booking that already has feedback.
FeedbackOnlyOnce ==
    [][\A i \in ReqSlots :
          (reqs[i].op = "feedback" /\ reqs[i].pc = "save"
           /\ reqs'[i].pc \in {"award", "done"})
          => bookings[reqs[i].bid].feedback = 0]_vars

Listed == avail.pc = "done" /\ avail.code = 200

\* the half hours from 08:00 to 13:00
SampleTimes == {StepMinutes * k : k \in 16 .. 26}

\* the price of the first window, in declaration order, that holds [s, e)
FirstWindowPrice(W, s, e) ==
    LET holding == {k \in DOMAIN W : WindowStart(W[k]) <= s /\ e <= WindowEnd(W[k])}
    IN  IF holding = {} THEN NoPrice
        ELSE W[CHOOSE k \in holding : \A j \in holding : k <= j].price

\* the slots of the listing that provider u emitted
SlotsOf(u) == SelectSeq(avail.slots, LAMBDA x : x.providerId = u)

\* the starts the generator has to emit for provider u
ExpectedStarts(u) ==
    {t \in {WorkingStart(u) + StepMinutes * k : k \in 0 .. 47} :
        /\ t + avail.duration <= WorkingEnd(u)
        /\ FirstWindowPrice(windows, t, t + avail.duration) # NoPrice}

\* the bookings that make provider u busy on the queried date
BusyBookings(u) ==
    {k \in DOMAIN bookings :
        /\ bookings[k].provider = u
        /\ bookings[k].date = avail.date
        /\ IsActive(bookings[k])}

\* C11: for every list of windows W and slot [s, e), the price lookup
\* returns the price of the first window in declaration order with
\* window.start <= s and e <= window.end, and no price when no window holds
\* the slot; every emitted slot carries that price.
PriceLookupFirstWindow ==
    Listed =>
        /\ \A t1, t2 \in SampleTimes :
              t1 < t2 => GetSlotPriceInfo(windows, t1, t2) = FirstWindowPrice(windows, t1, t2)
        /\ \A k \in DOMAIN avail.slots :
              avail.slots[k].price =
                 FirstWindowPrice(windows, avail.slots[k].startTime,
                                  avail.slots[k].startTime + avail.duration)

\* the slot 09:30-10:30, which all three windows of OverlappingWindows hold,
\* is listed at the price of the first
PriceLookupWitness ==
    /\ Listed
    /\ windows = OverlappingWindows
    /\ \E k \in DOMAIN avail.slots :
          /\ avail.slots[k].startTime = 570
          /\ avail.duration = 60
          /\ avail.slots[k].price = 100

\* C12: for a provider with working hours [ws, we] and duration d, the
\* generator emits exactly the candidates [ws + 30k, ws + 30k + d) that end
\* by we and that some window prices, in ascending order, each once,
\* skipping an unpriced candidate without stopping.
GeneratorEmitsPricedCandidates ==
    Listed =>
        \A n \in DOMAIN avail.providers :
            LET u == avail.providers[n]
                emitted == SlotsOf(u)
            IN  /\ {emitted[k].startTime : k \in DOMAIN emitted} = ExpectedStarts(u)
                /\ \A j, k \in DOMAIN emitted :
                      j < k => emitted[j].startTime < emitted[k].startTime
                /\ \A k \in DOMAIN emitted :
                      /\ emitted[k].startTime >= WorkingStart(u)
                      /\ emitted[k].startTime + avail.duration <= WorkingEnd(u)
                      /\ emitted[k].timeSlot =
                            TimeSlotLabel(emitted[k].startTime,
                                          emitted[k].startTime + avail.duration)

\* window 09:00-11:00 at 400, hours 08:00-20:00, duration 120: exactly the
\* slot '09:00 am - 11:00 am' at 400, after two unpriced candidates
GeneratorWitness ==
    /\ Listed
    /\ windows = ExampleWindows
    /\ avail.duration = 120
    /\ WorkingStart("p1") = 480 /\ WorkingEnd("p1") = 1200
    /\ Len(SlotsOf("p1")) = 1
    /\ SlotsOf("p1")[1].timeSlot = <<9, 0, "am", 11, 0, "am">>
    /\ SlotsOf("p1")[1].price = 400

\* C13: an emitted slot [s, e) of provider P has isAvailable = true if and
\* only if no busy interval [bs, be) of P on the queried date, from a
\* pending, confirmed or in_progress booking, has s < be and e > bs.
AvailableIffNotBusy ==
    Listed =>
        \A k \in DOMAIN avail.slots :
            LET x == avail.slots[k]
            IN  x.isAvailable <=>
                   ~\E b \in BusyBookings(x.providerId) :
                       LET r == BusyRange(bookings[b].timeSlot)
                       IN  x.startTime < r.end /\ x.startTime + avail.duration > r.start

\* C14: each label's isAvailable is the OR of isAvailable over the
\* providers that emitted the label, remainingSpots is the number of
\* providers that emitted it available; so isAvailable holds exactly when
\* remainingSpots >= 1, and remainingSpots is at most the number of
\* eligible providers.
AggregationCountsProviders ==
    Listed =>
        \A n \in DOMAIN avail.availability :
            LET a == avail.availability[n]
                same == {k \in DOMAIN avail.slots : avail.slots[k].timeSlot = a.timeSlot}
                free == {avail.slots[k].providerId :
                            k \in {j \in same : avail.slots[j].isAvailable}}
            IN  /\ same # {}
                /\ a.isAvailable <=> \E k \in same : avail.slots[k].isAvailable
                /\ a.remainingSpots = Cardinality(free)
                /\ a.isAvailable <=> a.remainingSpots >= 1
                /\ a.remainingSpots <= Len(avail.providers)

\* a label that two providers emitted, one of them busy: one spot remains
AggregationWitness ==
    /\ Listed
    /\ \E n \in DOMAIN avail.availability :
          /\ avail.availability[n].remainingSpots = 1
          /\ avail.availability[n].isAvailable
          /\ \E j, k \in DOMAIN avail.slots :
                /\ avail.slots[j].timeSlot = avail.availability[n].timeSlot
                /\ avail.slots[k].timeSlot = avail.availability[n].timeSlot
                /\ avail.slots[j].isAvailable
                /\ ~avail.slots[k].isAvailable

\* C15: the listing holds no two entries with the same label and is
\* ordered by slot start time ascending, for any number of providers.
ListingUniqueAndSorted ==
    Listed =>
        \A j, k \in DOMAIN avail.availability :
            j < k => /\ avail.availability[j].timeSlot # avail.availability[k].timeSlot
                     /\ avail.availability[j].startTime < avail.availability[k].startTime

\* two providers contributed the same labels, the nearer one starting later
ListingWitness ==
    /\ Listed
    /\ Len(avail.providers) = 2
    /\ Len(avail.availability) >= 2
    /\ \E j, k \in DOMAIN avail.slots :
          /\ j < k
          /\ avail.slots[j].startTime > avail.slots[k].startTime
    /\ \E j, k \in DOMAIN avail.slots :
          j # k /\ avail.slots[j].timeSlot = avail.slots[k].timeSlot

\* C16: when the queried date is the current date the listing holds no slot
\* that starts at or before the current time and keeps every emitted slot
\* that starts after it; for another date no emitted slot is dropped.
TodayFilterStrict ==
    Listed =>
        LET listed == {avail.availability[n].timeSlot : n \in DOMAIN avail.availability}
        IN  /\ \A n \in DOMAIN avail.availability :
                  avail.isToday => avail.availability[n].startTime > avail.currentTotalMin
            /\ \A k \in DOMAIN avail.slots :
                  (~avail.isToday \/ avail.slots[k].startTime > avail.currentTotalMin)
                  => avail.slots[k].timeSlot \in listed

\* at 09:00 today the 09:00 slot is dropped and the 09:30 slot is kept
TodayFilterWitness ==
    /\ Listed
    /\ avail.isToday
    /\ avail.currentTotalMin = 540
    /\ \E k \in DOMAIN avail.slots : avail.slots[k].startTime = 540
    /\ \E n \in DOMAIN avail.availability : avail.availability[n].startTime = 570
    /\ \A n \in DOMAIN avail.availability : avail.availability[n].startTime # 540

(***************************************************************************)
(* Properties of overlapping requests and of failures.                     *)
(***************************************************************************)
CompletionOps == {"complete", "stop"}

\* request i takes a step
Steps(i) == reqs'[i] # reqs[i]

\* C17: the earnings increment is not protected against double
\* application: a completion request that passed the status check goes on
\* to credit whatever the booking's stored status has become, and its
\* credit adds the booking's total to the balance it then read; so two
\* overlapping completions of one booking can credit the total twice.
CompletionCreditUnprotected ==
    [][\A i \in ReqSlots :
          /\ (reqs[i].op \in CompletionOps /\ reqs[i].pc = "save" /\ Steps(i))
             => /\ reqs'[i].pc = "credit"
                /\ reqs'[i].read = earnings[reqs[i].provider]
          /\ (reqs[i].op \in CompletionOps /\ reqs[i].pc = "credit" /\ Steps(i))
             => /\ reqs'[i].code = 200
                /\ earnings'[reqs[i].provider] =
                      reqs[i].read + bookings[reqs[i].bid].pricing.total]_vars

\* one booking, created and then completed by two overlapping requests, the
\* only three requests of the run: its total is credited twice
DoubleCreditWitness ==
    \E i \in ReqSlots :
        /\ reqs[i].op \in CompletionOps /\ reqs[i].pc = "done" /\ reqs[i].code = 200
        /\ Len(bookings) = 1
        /\ budget = MaxOpsConcurrent - 3
        /\ bookings[1].status = "completed"
        /\ earnings[bookings[1].provider] = 2 * bookings[1].pricing.total

\* C18: under every interleaving of start, complete, stop and assign on one
\* booking, a booking stored as completed is never overwritten with
\* in_progress or confirmed by a request that read an older status.
CompletedNotOverwritten ==
    [][\A i \in ReqSlots :
          (/\ reqs[i].op \in {"start", "complete", "stop", "assign"}
           /\ reqs[i].pc = "save"
           /\ Steps(i)
           /\ reqs[i].doc.status # "completed"
           /\ bookings[reqs[i].bid].status = "completed")
          => bookings'[reqs[i].bid].status = "completed"]_vars

\* C19: a creation whose Booking.create fails with a uniqueness conflict is
\* answered once with a conflict and not with a server error; it is not
\* retried, no booking is stored for it and the bookings stay as they were.
ConflictSurfaced ==
    [][\A i \in ReqSlots :
          (/\ reqs[i].op = "create" /\ reqs[i].pc = "create" /\ Steps(i)
           /\ DuplicateKey(Append(bookings, reqs[i].doc), Len(bookings) + 1))
          => /\ reqs'[i].pc = "done"
             /\ reqs'[i].code \in 400 .. 499
             /\ bookings' = bookings]_vars

NotifyingOps == {"create", "assign", "start", "complete", "stop"}

\* the success answers of the notifying handlers
SuccessCode(op) == IF op = "create" THEN 201 ELSE 200

\* C20: a failure of the notifier never blocks or fails a core operation:
\* a create, assign, start, complete or stop whose push notification fails
\* still answers with its success code and the booking, and the booking and
\* the earnings are stored as when the push succeeds.
NotifierFailureHarmless ==
    [][\A i \in ReqSlots :
          (Steps(i) /\ reqs'[i].pc = "done" /\ reqs'[i].push = "failed")
          => /\ reqs[i].op \in NotifyingOps
             /\ reqs'[i].code = SuccessCode(reqs[i].op)
             /\ reqs'[i].doc # NoDoc
             /\ \/ /\ reqs[i].op = "create"
                   /\ bookings' = Append(bookings, reqs[i].doc)
                   /\ earnings' = earnings
                \/ /\ reqs[i].op \in {"assign", "start"}
                   /\ bookings' = [bookings EXCEPT ![reqs[i].bid] =
                                       Stored(bookings[reqs[i].bid], reqs'[i].doc,
                                              ModifiedPaths(reqs[i].doc, reqs'[i].doc))]
                   /\ earnings' = earnings
                \/ /\ reqs[i].op \in CompletionOps
                   /\ bookings' = bookings
                   /\ earnings'[reqs[i].provider] =
                         reqs[i].read + reqs[i].doc.pricing.total]_vars

\* a completion is answered with success although its push failed, and the
\* provider's earnings hold the booking's total
NotifierFailureWitness ==
    \E i \in ReqSlots :
        /\ reqs[i].op \in CompletionOps /\ reqs[i].pc = "done"
        /\ reqs[i].push = "failed" /\ reqs[i].code = 200
        /\ bookings[reqs[i].bid].status = "completed"
        /\ earnings[bookings[reqs[i].bid].provider] >= bookings[reqs[i].bid].pricing.total

(***************************************************************************)
(* Properties of the guards of the transitions.                            *)
(***************************************************************************)
\* request i, arriving or resumed, makes a step of operation op on booking id
StepOf(i, op, id) ==
    /\ Steps(i)
    /\ \/ Arriving(i, op) /\ reqs'[i].bid = id
       \/ reqs[i].op = op /\ reqs[i].bid = id /\ reqs[i].pc # "done"

\* the answer of request i after this step is a rejection
Rejected(i) == reqs'[i].pc = "done" /\ reqs'[i].code >= 400

\* C21: manual assign performs only the pending -> confirmed transition: an
\* assign request on a booking whose status is confirmed, in_progress,
\* completed or cancelled is rejected and leaves the booking's status and
\* provider unchanged.
AssignOnlyFromPending ==
    [][\A i \in ReqSlots, id \in DOMAIN bookings :
          (StepOf(i, "assign", id) /\ bookings[id].status # "pending")
          => /\ Rejected(i)
             /\ bookings'[id].status = bookings[id].status
             /\ bookings'[id].provider = bookings[id].provider]_vars

\* provider p holds an active booking other than id for the date and
\* timeSlot of booking id
HoldsSameSlot(p, id) ==
    \E j \in DOMAIN bookings \ {id} :
        /\ bookings[j].provider = p
        /\ bookings[j].date = bookings[id].date
        /\ bookings[j].timeSlot = bookings[id].timeSlot
        /\ IsActive(bookings[j])

\* C22: a manual assign of provider P to booking B is rejected, leaving B
\* and every other booking unchanged, whenever P already holds another
\* booking for the same date and timeSlot with status pending, confirmed or
\* in_progress.
AssignRejectsBusyProvider ==
    [][\A i \in ReqSlots :
          (/\ reqs[i].op = "assign" /\ reqs[i].pc = "save" /\ Steps(i)
           /\ HoldsSameSlot(reqs[i].provider, reqs[i].bid))
          => Rejected(i) /\ bookings' = bookings]_vars

\* the provider that request i, making a step of assign, names
AssignTarget(i) == IF reqs[i] = Idle THEN reqs'[i].provider ELSE reqs[i].provider

\* C23: a manual assign succeeds only if the target user exists with role
\* provider and the provider's serviceCategory equals the booking's service
\* name after trimming and lower-casing both; otherwise the request is
\* rejected and the booking's provider and status are unchanged.
AssignNeedsMatchingProvider ==
    [][\A i \in ReqSlots, id \in DOMAIN bookings :
          StepOf(i, "assign", id)
          => /\ ~Rejected(i)
                => /\ AssignTarget(i) \in Users
                   /\ Role(AssignTarget(i)) = "provider"
                   /\ ToLowerCase(Trim(ServiceCategory(AssignTarget(i)))) =
                         ToLowerCase(Trim(ServiceName(bookings[id].service)))
             /\ Rejected(i)
                => /\ bookings'[id].provider = bookings[id].provider
                   /\ bookings'[id].status = bookings[id].status]_vars

\* an assign of a provider whose category differs from the service name in
\* case and in surrounding blanks only has succeeded
AssignMatchingWitness ==
    \E i \in ReqSlots :
        /\ reqs[i].op = "assign" /\ reqs[i].pc = "done" /\ reqs[i].code = 200
        /\ bookings[reqs[i].bid].provider = reqs[i].doc.provider
        /\ bookings[reqs[i].bid].status = "confirmed"
        /\ ServiceCategory(reqs[i].doc.provider) # ServiceName(reqs[i].doc.service)

\* the caller of request i, which makes a step
Caller(i) == IF reqs[i] = Idle THEN reqs'[i].actor ELSE reqs[i].actor

\* request i is answered with success in this step
Succeeds(i) == reqs'[i].pc = "done" /\ reqs'[i].code \in {200, 201}

\* C24: start succeeds only when the caller is the booking's assigned
\* provider and the booking's status is confirmed; it then sets status =
\* in_progress and startedAt.  In every other case (other provider,
\* unassigned booking, any other status) the request fails and the booking
\* is unchanged.
StartGuarded ==
    [][\A i \in ReqSlots, id \in DOMAIN bookings :
          StepOf(i, "start", id)
          => LET owned == /\ bookings[id].provider # Null
                          /\ bookings[id].provider = Caller(i)
                          /\ bookings[id].status = "confirmed"
             IN  /\ Succeeds(i)
                    => /\ owned
                       /\ bookings' = [bookings EXCEPT ![id].status = "in_progress",
                                                       ![id].startedAt = TRUE]
                 /\ ~owned => Rejected(i)
                 /\ ~Succeeds(i) => bookings' = bookings]_vars

\* the assigned provider has started a confirmed booking
StartWitness ==
    \E i \in ReqSlots :
        /\ reqs[i].op = "start" /\ reqs[i].pc = "done" /\ reqs[i].code = 200
        /\ bookings[reqs[i].bid].provider = reqs[i].actor
        /\ bookings[reqs[i].bid].status = "in_progress"
        /\ bookings[reqs[i].bid].startedAt

\* C25: the in_progress -> completed transition is performed only by the
\* booking's assigned provider: a stop or complete request by any other
\* actor, including the booking's customer, does not change the booking's
\* status and credits no earnings.
CompletionOnlyByProvider ==
    [][\A i \in ReqSlots, id \in DOMAIN bookings :
          (/\ StepOf(i, "stop", id) \/ StepOf(i, "complete", id)
           /\ Caller(i) # bookings[id].provider)
          => /\ bookings'[id].status = bookings[id].status
             /\ earnings' = earnings]_vars

\* the booking as request i, making a step on booking id, has read it
Loaded(i, id) == IF reqs[i] = Idle THEN bookings[id] ELSE reqs[i].doc

\* C25, amended: a booking is completed only by its assigned provider or,
\* through stop, by its customer: a complete request by anyone but the
\* assigned provider, and a stop request by anyone but the assigned provider
\* and the customer, does not change the booking's status and credits no
\* earnings.
CompletionOnlyByOwner ==
    [][\A i \in ReqSlots, id \in DOMAIN bookings :
          LET b == Loaded(i, id)
          IN  (\/ StepOf(i, "complete", id) /\ Caller(i) # b.provider
               \/ /\ StepOf(i, "stop", id)
                  /\ Caller(i) # b.provider
                  /\ Caller(i) # b.customer)
              => /\ Rejected(i)
                 /\ bookings' = bookings
                 /\ earnings' = earnings]_vars

\* the customer has stopped a started booking: it is completed and its
\* provider holds the total
CustomerStopWitness ==
    \E i \in ReqSlots :
        /\ reqs[i].op = "stop" /\ reqs[i].pc = "done" /\ reqs[i].code = 200
        /\ reqs[i].actor = bookings[reqs[i].bid].customer
        /\ bookings[reqs[i].bid].status = "completed"
        /\ earnings[bookings[reqs[i].bid].provider] = bookings[reqs[i].bid].pricing.total

\* C26: feedback is applied only when the caller is the booking's customer
\* and the booking's status is completed; a feedback request by any other
\* user, or on a booking in any other status, is rejected and leaves the
\* booking's feedback and the provider's points and gifts unchanged.
FeedbackGuarded ==
    [][\A i \in ReqSlots, id \in DOMAIN bookings :
          StepOf(i, "feedback", id)
          => LET b == Loaded(i, id)
                 allowed == Caller(i) = b.customer /\ b.status = "completed"
             IN  /\ ~allowed => Rejected(i)
                 /\ (~allowed \/ Rejected(i))
                    => /\ bookings'[id].feedback = bookings[id].feedback
                       /\ points' = points
                       /\ gifts' = gifts]_vars

\* the customer's feedback on a completed booking is stored and the
\* provider holds the points awarded for it
FeedbackAppliedWitness ==
    \E i \in ReqSlots :
        /\ reqs[i].op = "feedback" /\ reqs[i].pc = "done" /\ reqs[i].code = 200
        /\ reqs[i].actor = bookings[reqs[i].bid].customer
        /\ bookings[reqs[i].bid].status = "completed"
        /\ bookings[reqs[i].bid].feedback = 4
        /\ points[bookings[reqs[i].bid].provider] = PointsAwarded(4)

\* no step of the core writes the status cancelled
NeverCancelled == \A id \in DOMAIN bookings : bookings[id].status # "cancelled"

\* no booking record is removed or replaced by another
RecordsKept ==
    [][/\ Len(bookings') >= Len(bookings)
       /\ \A id \in DOMAIN bookings :
             /\ bookings'[id].customer = bookings[id].customer
             /\ bookings'[id].date = bookings[id].date
             /\ bookings'[id].timeSlot = bookings[id].timeSlot]_vars

\* C27: a booking in status pending or confirmed can be moved to status
\* cancelled by some operation of the core: where such a booking exists,
\* some step of the core's operations leaves it cancelled, no longer
\* active, with its record still in the collection.
CancelPossible ==
    \A id \in DOMAIN bookings :
        bookings[id].status \in {"pending", "confirmed"}
        => ENABLED (/\ Next
                    /\ Len(bookings') >= Len(bookings)
                    /\ bookings'[id].status = "cancelled"
                    /\ ~IsActive(bookings'[id]))

\* C28: every active booking of a provider on the queried date, whether
\* pending, confirmed or in_progress, contributes a busy interval: every
\* slot of the provider that overlaps the booking's interval is listed with
\* isAvailable = false for that provider, also after the booking is started.
ActiveBookingsKeepBusy ==
    Listed =>
        \A b \in DOMAIN bookings :
            (/\ bookings[b].provider # Null
             /\ bookings[b].date = avail.date
             /\ bookings[b].status \in {"pending", "confirmed", "in_progress"})
            => \A k \in DOMAIN avail.slots :
                  LET x == avail.slots[k]
                      r == BusyRange(bookings[b].timeSlot)
                  IN  (/\ x.providerId = bookings[b].provider
                       /\ x.startTime < r.end
                       /\ x.startTime + avail.duration > r.start)
                      => ~x.isAvailable

(***************************************************************************)
(* Properties of the labels and of the generator's loop.                   *)
(***************************************************************************)
\* C29: slot label rendering is canonical and collision-free: parsing a
\* rendered label with the busy-interval parser recovers the start and end
\* minutes that were rendered (12:xx am and 12:xx pm included), and no other
\* minute of the day renders to either half of the label, so two slots with
\* different (start, end) have different labels.
LabelRoundTrip ==
    gen.pc = "parsed"
    => LET start == gen.current
           end == gen.current + gen.duration
       IN  /\ gen.range = [start |-> start, end |-> end]
           /\ \A t \in DayTimes :
                 /\ FormatSlotTime(t) = SubSeq(gen.label, 1, 3) => t = start
                 /\ FormatSlotTime(t) = SubSeq(gen.label, 4, 6) => t = end

\* the label of midnight to noon, '12:00 am - 12:00 pm', has been parsed
LabelRoundTripWitness ==
    /\ gen.pc = "parsed"
    /\ gen.current = 0 /\ gen.duration = 12 * 60
    /\ gen.label = <<12, 0, "am", 12, 0, "pm">>
    /\ gen.range = [start |-> 0, end |-> 12 * 60]

BadHours(u) ==
    \/ WorkingStart(u) = NaN
    \/ WorkingEnd(u) = NaN
    \/ WorkingEnd(u) <= WorkingStart(u)

\* C31: a provider whose working hours cannot be parsed, or whose end is
\* not after its start, contributes zero slots to the aggregation, the
\* slots of every other eligible provider are those of a query without that
\* provider, and the query still succeeds.
HoursDegradeGracefully ==
    (/\ avail.pc = "done"
     /\ avail.serviceId \in Services /\ avail.date # Null /\ avail.point # NoLocation)
    => LET others == SelectSeq(avail.providers, LAMBDA u : ~BadHours(u))
           existing == ExistingBookings({avail.providers[k] : k \in DOMAIN avail.providers},
                                        avail.date)
       IN  /\ avail.code = 200
           /\ \A n \in DOMAIN avail.providers :
                 BadHours(avail.providers[n]) => SlotsOf(avail.providers[n]) = <<>>
           /\ avail.slots = AllAvailableSlots(others, existing, windows, avail.duration)

FrozenFields == {"customer", "service", "date", "timeSlot", "pricing"}

\* C32: after creation no operation (assign, start, complete, stop,
\* feedback) changes a booking's customer, service, date, timeSlot or
\* pricing {base, tax, total}, and the amount a completion credits is the
\* total of the pricing stored at creation.
SnapshotFrozen ==
    [][/\ \A id \in DOMAIN bookings :
             /\ id \in DOMAIN bookings'
             /\ \A f \in FrozenFields : bookings'[id][f] = bookings[id][f]
       /\ \A i \in ReqSlots :
             (reqs[i].op \in CompletionOps /\ reqs[i].pc = "credit" /\ Steps(i))
             => earnings'[reqs[i].provider] =
                   reqs[i].read + bookings[reqs[i].bid].pricing.total]_vars

\* a booking created at the price 100 went through start, stop and
\* feedback: it holds the pricing of its creation and its provider was
\* credited that total
SnapshotWitness ==
    \E i \in ReqSlots :
        /\ reqs[i].op = "feedback" /\ reqs[i].pc = "done" /\ reqs[i].code = 200
        /\ bookings[1].status = "completed" /\ bookings[1].feedback # 0
        /\ bookings[1].timeSlot = SlotA
        /\ bookings[1].pricing = [base |-> 100, tax |-> 18, total |-> 118]
        /\ earnings[bookings[1].provider] = 118

\* C33: in every reachable state a booking has provider = null if and only
\* if its status is pending: creation and manual assign never produce a
\* pending booking with a provider, nor a confirmed, in_progress or
\* completed booking without one.
ProviderIffAssigned ==
    \A id \in DOMAIN bookings :
        bookings[id].provider = Null <=> bookings[id].status = "pending"

\* after two creations and a manual assign, the only requests of the run,
\* the second booking is confirmed with the provider the assign named
AssignedWitness ==
    \E i \in ReqSlots :
        /\ reqs[i].op = "assign" /\ reqs[i].pc = "done" /\ reqs[i].code = 200
        /\ reqs[i].bid = 2
        /\ budget = MaxOps - 3
        /\ bookings[1].provider = "p2" /\ bookings[1].status = "confirmed"
        /\ bookings[2].provider = "p1" /\ bookings[2].status = "confirmed"
        /\ bookings[2].timeSlot = bookings[1].timeSlot

\* C34: in every reachable state the provider of every booking with a
\* non-null provider is a user with role provider who is verified, whether
\* the provider was set by automatic assignment or by manual assign.
ProviderVerified ==
    \A id \in DOMAIN bookings :
        bookings[id].provider # Null
        => /\ bookings[id].provider \in Users
           /\ Role(bookings[id].provider) = "provider"
           /\ IsVerified(bookings[id].provider)

\* the listing the availability query answers with in the current state,
\* for a date other than the current one
ListingFor(serviceId, date, duration, point) ==
    LET providers == AllEligibleProviders(ServiceName(serviceId), point)
        existing == ExistingBookings({providers[k] : k \in DOMAIN providers}, date)
    IN  SortedAvailability(UniqueSlotsMap(
            AllAvailableSlots(providers, existing, windows, Duration(duration, serviceId))))

MsgInvalidSlot == "Invalid time slot selected"

\* C35: every slot the availability query returns for a service (label L,
\* price p) is accepted by booking creation: a creation request for that
\* service, date, point and timeSlot = L, made in the state the query saw,
\* is not rejected as an invalid time slot and prepares pricing.base = p,
\* and if the slot was reported with remainingSpots >= 1 the booking is
\* created confirmed.
ListedSlotsBookable ==
    [][\A i \in ReqSlots :
          (/\ Arriving(i, "create")
           /\ Role(reqs'[i].actor) = "customer"
           /\ reqs'[i].body.serviceId \in Services
           /\ reqs'[i].body.location # NoLocation)
          => LET b == reqs'[i].body
             IN  \A duration \in AvailDurations :
                   LET listing == ListingFor(b.serviceId, b.date, duration, b.location)
                   IN  \A n \in DOMAIN listing :
                         listing[n].timeSlot = b.timeSlot
                         => /\ reqs'[i].message # MsgInvalidSlot
                            /\ reqs'[i].pc = "create"
                            /\ reqs'[i].doc.pricing.base = listing[n].price
                            /\ listing[n].remainingSpots >= 1
                               => reqs'[i].doc.status = "confirmed"]_vars

\* C36: when completion requests for two different bookings of the same
\* provider are processed concurrently, no earnings update is lost: once
\* two requests, the only ones admitted, have completed the provider's two
\* bookings and have ended, the provider's earnings have grown by the sum
\* of both bookings' pricing.total.
NoLostEarnings ==
    (/\ InFlight = {}
     /\ budget = MaxOpsConcurrent - 2
     /\ Len(bookings) = 2
     /\ bookings[1].provider = bookings[2].provider
     /\ bookings[1].status = "completed" /\ bookings[2].status = "completed")
    => earnings[bookings[1].provider] =
          bookings[1].pricing.total + bookings[2].pricing.total

\* C37: completion is all-or-nothing with respect to earnings: when no
\* request is in flight, every completed booking's total has been added to
\* its provider's earnings, also after a provider update that failed.
CompletionAllOrNothing ==
    InFlight = {}
    => \A p \in Providers : earnings[p] >= CompletedTotal(p, Len(bookings))

====
